---- MODULE Spec2Model ----
(***************************************************************************)
(* Control loop and per-pool reconciliation of the AWS provisioner         *)
(* (Provisioner.run / stop / runAllProvisionersOnce / provisionType /      *)
(* spawn).  Every await of the source is a point where the model stops;    *)
(* what runs between two awaits is one atomic step.  Time is abstract: a   *)
(* delay or a network call completes at any later step.                    *)
(***************************************************************************)
EXTENDS Integers, Sequences, FiniteSets, TLC

\* ---- program constants ----
MAX_FAILURES == 15

\* ---- bounds of the model ----
NumPools == 2        \* worker types WorkerType.loadAll() may return
MaxDelta == 2        \* largest capacity change a pool's policy returns
MaxRuns == 2         \* run() calls in the general specification
MaxSweeps == 2       \* runAllProvisionersOnce calls in the general specification
SeqSweeps == 2       \* runAllProvisionersOnce calls in the single-loop specification
SpecDelta == 1       \* largest capacity change in the general specification
LoopRuns == 1        \* run() calls in the control-loop specification
LoopSweeps == 18     \* runAllProvisionersOnce calls in the control-loop specification
HangRuns == 2        \* run() calls in the specifications with fairness
HangSweeps == 3      \* runAllProvisionersOnce calls in the specifications with fairness

Pool == 1..NumPools
Deltas == (0 - MaxDelta)..MaxDelta
SmallDeltas == (0 - SpecDelta)..SpecDelta

VARIABLES
  keepRunning,  \* this.__keepRunning
  stats,        \* this.__stats: [runs, consecFail]
  watchDog,     \* this.__watchDog: [running, handlers, expired]
  exitTimers,   \* pending setTimeout(process.exit) timers set by exitTimer
  exited,       \* process.exit(44) has run
  once,         \* process.env.PROVISION_ONCE is set
  loops,        \* one record per run() call: [pc, sweep]
  sweeps        \* one record per runAllProvisionersOnce call

vars == <<keepRunning, stats, watchDog, exitTimers, exited, once, loops, sweeps>>

\* ---- per-pool reconciliation: provisionType and spawn ----

\* The state of one provisionType call, from its await of queue.pendingTasks.
\* tasks, secrets, requests, kills and metrics log the calls made to
\* queue.pendingTasks, Secret.create, awsManager.requestSpotInstance,
\* awsManager.killCapacityOfWorkerType and reportProvisioningIteration.
NewInvocation ==
  [pc |-> "pendingTasks", tasks |-> "pending", change |-> 0, bids |-> 0,
   cur |-> 0, secrets |-> <<>>, requests |-> <<>>, paces |-> <<>>,
   kills |-> <<>>, metrics |-> <<>>]

SetLast(seq, st) == [seq EXCEPT ![Len(seq)].st = st]

\* workerType.determineSpotBids(regions, pricing, change): the number of bids
determineSpotBids(change) == change

\* this.reportProvisioningIteration({... change: change})
reportSkipZero(inv, change) ==
  IF change = 0 THEN inv
  ELSE [inv EXCEPT !.metrics = Append(@, [change |-> change])]

reportTwice(inv, change) ==
  [inv EXCEPT !.metrics = @ \o <<[change |-> change], [change |-> change]>>]

reportProvisioningIteration(inv, change) ==
  [inv EXCEPT !.metrics = Append(@, [change |-> change])]

\* awsManager.requestSpotInstance(launchInfo, bid) is called
requestSpotInstance(inv, bid) ==
  [inv EXCEPT !.pc = "request",
              !.requests = Append(@, [bid |-> bid, st |-> "pending"])]

\* spawn(workerType, bid) up to its await of Secret.create
spawnNoAwait(inv, bid) ==
  requestSpotInstance(
    [inv EXCEPT !.cur = bid,
                !.secrets = Append(@, [bid |-> bid, st |-> "pending"])], bid)

spawn(inv, bid) ==
  [inv EXCEPT !.pc = "secret", !.cur = bid,
              !.secrets = Append(@, [bid |-> bid, st |-> "pending"])]

\* the entity of Secret.create is written in the table; the response is on
\* its way to the process
secretStored(inv) == [inv EXCEPT !.secrets = SetLast(@, "stored")]

\* spawn after Secret.create has resolved
spawnAfterSecret(inv) ==
  requestSpotInstance([inv EXCEPT !.secrets = SetLast(@, "ok")], inv.cur)

\* Secret.create rejects: spawn rejects, and with it the chain q
spawnSecretFailedGoesOn(inv) ==
  requestSpotInstance([inv EXCEPT !.secrets = SetLast(@, "failed")], inv.cur)

spawnSecretFailed(inv) ==
  [inv EXCEPT !.pc = "failed", !.secrets = SetLast(@, "failed")]

\* d = delayer(500), called: a promise that resolves 500 ms later
delayer(inv) ==
  [inv EXCEPT !.pc = "pace",
              !.paces = Append(@, [bid |-> inv.cur, st |-> "pending"])]

\* requestSpotInstance resolves: .then(d) starts the 500 ms delay
requestResolvedNoPace(inv) ==
  IF inv.cur < inv.bids
  THEN spawn([inv EXCEPT !.requests = SetLast(@, "ok")], inv.cur + 1)
  ELSE [inv EXCEPT !.pc = "done", !.requests = SetLast(@, "ok")]

requestResolved(inv) ==
  delayer([inv EXCEPT !.requests = SetLast(@, "ok")])

\* requestSpotInstance rejects: the rest of the chain is skipped
requestRejectedGoesOn(inv) ==
  IF inv.cur < inv.bids
  THEN spawn([inv EXCEPT !.requests = SetLast(@, "failed")], inv.cur + 1)
  ELSE [inv EXCEPT !.pc = "failed", !.requests = SetLast(@, "failed")]

requestRejected(inv) ==
  [inv EXCEPT !.pc = "failed", !.requests = SetLast(@, "failed")]

\* the delay d resolves: the next link of the chain runs, or q resolves
paceElapsedStopsEarly(inv) ==
  [inv EXCEPT !.pc = "done", !.paces = SetLast(@, "elapsed")]

paceElapsed(inv) ==
  IF inv.cur < inv.bids
  THEN spawn([inv EXCEPT !.paces = SetLast(@, "elapsed")], inv.cur + 1)
  ELSE [inv EXCEPT !.pc = "done", !.paces = SetLast(@, "elapsed")]

\* awsManager.killCapacityOfWorkerType(workerType, -change, ['pending', 'spotReq'])
killAlsoRunning(inv, change) ==
  [inv EXCEPT !.pc = "kill",
              !.kills = Append(@, [count |-> 0 - change,
                                   states |-> {"running", "pending", "spotReq"}])]

killCapacityOfWorkerType(inv, change) ==
  [inv EXCEPT !.pc = "kill",
              !.kills = Append(@, [count |-> 0 - change,
                                   states |-> {"pending", "spotReq"}])]

\* provisionType from the resolution of queue.pendingTasks to its next await
provisionTypeBranch(inv, change) ==
  LET r == [reportProvisioningIteration(inv, change)
              EXCEPT !.change = change, !.tasks = "ok"]
  IN  IF change > 0
      THEN spawn([r EXCEPT !.bids = determineSpotBids(change)], 1)
      ELSE IF change < 0
      THEN killCapacityOfWorkerType(r, change)
      ELSE [r EXCEPT !.pc = "done"]

\* ---- one sweep: runAllProvisionersOnce ----

NewSweep(l) ==
  [phase |-> "fetch", owner |-> l, workerTypes |-> {}, types |-> <<>>,
   keyPairs |-> <<>>]

\* workerNames.map(name => this.awsManager.createKeyPair(name)): one call per
\* worker type; the array of their promises is an element of the array given
\* to Promise.all, which takes an element that is not a promise as a value
createKeyPairs(ws) == [p \in ws |-> "pending"]

\* workerTypes.map(async worker => this.provisionType(worker, pricing)):
\* every provisionType call runs up to its await of queue.pendingTasks
fanOutFirstOnly(ws) ==
  [p \in (IF ws = {} THEN {} ELSE {CHOOSE p \in ws : \A q \in ws : p <= q})
     |-> NewInvocation]

fanOut(ws) == [p \in ws |-> NewInvocation]

\* Promise.all over the provisionType promises: rejects with the first
\* rejection, resolves when all have resolved
fanIn(sw) ==
  IF sw.phase # "fanout" THEN sw
  ELSE IF \E p \in DOMAIN sw.types : sw.types[p].pc = "failed"
       THEN [sw EXCEPT !.phase = "rejected"]
  ELSE IF \A p \in DOMAIN sw.types : sw.types[p].pc = "done"
       THEN [sw EXCEPT !.phase = "resolved"]
  ELSE sw

SetInv(s, p, inv) ==
  [sweeps EXCEPT ![s] = fanIn([sweeps[s] EXCEPT !.types[p] = inv])]

Sweeps == 1..Len(sweeps)
Loops == 1..Len(loops)
Started(s) == DOMAIN sweeps[s].types
InvAt(s, p, pc) == p \in Started(s) /\ sweeps[s].types[p].pc = pc

\* the sweep's result has been taken by run(): what remains of the sweep
\* are the provisionType calls that have not ended (nothing awaits them)
Running(inv) == inv.pc \notin {"done", "failed"}

reported(sw) ==
  [phase |-> "reported", owner |-> 0, workerTypes |-> {},
   types |-> [p \in {q \in DOMAIN sw.types : Running(sw.types[q])}
                |-> sw.types[p]],
   keyPairs |-> [p \in {q \in DOMAIN sw.keyPairs : sw.keyPairs[q] = "pending"}
                   |-> "pending"]]

\* ---- the control loop: run and stop ----

\* this.__stats.consecFail > MAX_FAILURES
tooManyFailures(st) == st.consecFail > MAX_FAILURES

\* this.__stats.consecFail = 0
sweepSucceeded(st) == [st EXCEPT !.consecFail = 0]

\* this.__stats.consecFail++
sweepFailedNotCounted(st) == st

sweepFailed(st) == [st EXCEPT !.consecFail = @ + 1]

\* exitTimer(MAX_KILL_TIME): one more pending timer that ends the process
exitTimerNotSet(timers) == timers

exitTimer(timers) == timers + 1

\* this.__watchDog.on('expired', ...) and this.__watchDog.start()
armedNotStarted(wd) == [wd EXCEPT !.handlers = @ + 1]

armed(wd) ==
  [running |-> TRUE, handlers |-> wd.handlers + 1, expired |-> FALSE]

\* while (this.__keepRunning && !process.env.PROVISION_ONCE)
keepGoingNever(keep, onceMode) == FALSE

keepGoingIgnoresOnce(keep, onceMode) == keep

keepGoingAfterStop(keep, onceMode) == ~onceMode

keepGoing(keep, onceMode) == keep /\ ~onceMode

\* the body of the do loop up to its await of runAllProvisionersOnce, which
\* itself runs up to its await of the three fetches; a throw is caught by
\* the outer catch, which sets a second exit timer and rethrows
iteration(l, lps, maxSweeps) ==
  IF tooManyFailures(stats)
  THEN /\ exitTimers' = exitTimer(exitTimer(exitTimers))
       /\ loops' = [lps EXCEPT ![l] = [pc |-> "threw", sweep |-> 0]]
       /\ UNCHANGED <<stats, sweeps>>
  ELSE /\ Len(sweeps) < maxSweeps
       /\ stats' = [stats EXCEPT !.runs = @ + 1]
       /\ sweeps' = Append(sweeps, NewSweep(l))
       /\ loops' = [lps EXCEPT ![l] = [pc |-> "sweep", sweep |-> Len(sweeps) + 1]]
       /\ UNCHANGED exitTimers

run(maxRuns, maxSweeps) ==
  /\ ~exited
  /\ Len(loops) < maxRuns
  /\ keepRunning' = TRUE
  /\ watchDog' = armed(watchDog)
  /\ iteration(Len(loops) + 1, Append(loops, [pc |-> "start", sweep |-> 0]),
               maxSweeps)
  /\ UNCHANGED <<exited, once>>

stop ==
  /\ ~exited
  /\ keepRunning' = FALSE
  /\ watchDog' = [watchDog EXCEPT !.running = FALSE]
  /\ stats' = [runs |-> 0, consecFail |-> 0]
  /\ UNCHANGED <<exitTimers, exited, once, loops, sweeps>>

\* await this.runAllProvisionersOnce() settles: try/catch, then await d()
SweepSettled(l) ==
  /\ ~exited
  /\ l \in Loops
  /\ loops[l].pc = "sweep"
  /\ LET s == loops[l].sweep IN
       /\ sweeps[s].phase \in {"resolved", "rejected"}
       /\ stats' = IF sweeps[s].phase = "resolved"
                   THEN sweepSucceeded(stats) ELSE sweepFailed(stats)
       /\ sweeps' = [sweeps EXCEPT ![s] = reported(@)]
       /\ loops' = [loops EXCEPT ![l].pc = "delay"]
  /\ UNCHANGED <<keepRunning, watchDog, exitTimers, exited, once>>

\* await d() resolves: while (this.__keepRunning && !process.env.PROVISION_ONCE)
DelayElapsed(l, maxSweeps) ==
  /\ ~exited
  /\ l \in Loops
  /\ loops[l].pc = "delay"
  /\ IF keepGoing(keepRunning, once)
     THEN iteration(l, loops, maxSweeps)
     ELSE /\ loops' = [loops EXCEPT ![l] = [pc |-> "returned", sweep |-> 0]]
          /\ UNCHANGED <<stats, exitTimers, sweeps>>
  /\ UNCHANGED <<keepRunning, watchDog, exited, once>>

\* the watchdog was not touched within MAX_PROVISION_ITERATION: it emits
\* 'expired' once; the first handler sets the exit timer and throws, which
\* keeps emit from calling the handlers registered by later run() calls
watchDogExpired ==
  /\ ~exited
  /\ watchDog.running
  /\ ~watchDog.expired
  /\ watchDog' = [watchDog EXCEPT !.expired = TRUE]
  /\ exitTimers' = IF watchDog.handlers > 0
                   THEN exitTimer(exitTimers) ELSE exitTimers
  /\ UNCHANGED <<keepRunning, stats, exited, once, loops, sweeps>>

\* the timer of exitTimer fires: process.exit(44)
processExit ==
  /\ ~exited
  /\ exitTimers > 0
  /\ exited' = TRUE
  /\ UNCHANGED <<keepRunning, stats, watchDog, exitTimers, once, loops, sweeps>>

\* ---- steps of a sweep ----

SweepStep(s, sw) ==
  /\ ~exited
  /\ sweeps' = [sweeps EXCEPT ![s] = sw]
  /\ UNCHANGED <<keepRunning, stats, watchDog, exitTimers, exited, once, loops>>

\* WorkerType.loadAll, awsPricing and awsManager.update have all resolved;
\* the maintenance calls are made
FetchDone(s, ws) ==
  /\ s \in Sweeps
  /\ sweeps[s].phase = "fetch"
  /\ SweepStep(s, [sweeps[s] EXCEPT !.phase = "maint", !.workerTypes = ws,
                                   !.keyPairs = createKeyPairs(ws)])

\* one of the three fetches rejects
FetchFail(s) ==
  /\ s \in Sweeps
  /\ sweeps[s].phase = "fetch"
  /\ SweepStep(s, [sweeps[s] EXCEPT !.phase = "rejected"])

\* rougeKiller, zombieKiller and ensureTags have resolved: the fan-out
MaintDone(s) ==
  /\ s \in Sweeps
  /\ sweeps[s].phase = "maint"
  /\ SweepStep(s, fanIn([sweeps[s] EXCEPT !.phase = "fanout",
                                         !.types = fanOut(sweeps[s].workerTypes)]))

\* one of rougeKiller, zombieKiller, ensureTags rejects
MaintFail(s) ==
  /\ s \in Sweeps
  /\ sweeps[s].phase = "maint"
  /\ SweepStep(s, [sweeps[s] EXCEPT !.phase = "rejected"])

\* a createKeyPair call settles; nothing awaits its promise
KeyPairDone(s, p) ==
  /\ s \in Sweeps
  /\ p \in DOMAIN sweeps[s].keyPairs
  /\ sweeps[s].keyPairs[p] = "pending"
  /\ SweepStep(s, [sweeps[s] EXCEPT !.keyPairs[p] = "ok"])

KeyPairFail(s, p) ==
  /\ s \in Sweeps
  /\ p \in DOMAIN sweeps[s].keyPairs
  /\ sweeps[s].keyPairs[p] = "pending"
  /\ SweepStep(s, [sweeps[s] EXCEPT !.keyPairs[p] = "failed"])

\* ---- steps of a provisionType call ----

InvStep(s, p, inv) ==
  /\ ~exited
  /\ sweeps' = SetInv(s, p, inv)
  /\ UNCHANGED <<keepRunning, stats, watchDog, exitTimers, exited, once, loops>>

PendingTasksDone(s, p, change) ==
  /\ s \in Sweeps
  /\ InvAt(s, p, "pendingTasks")
  /\ InvStep(s, p, provisionTypeBranch(sweeps[s].types[p], change))

PendingTasksFail(s, p) ==
  /\ s \in Sweeps
  /\ InvAt(s, p, "pendingTasks")
  /\ InvStep(s, p, [sweeps[s].types[p] EXCEPT !.pc = "failed",
                                               !.tasks = "failed"])

SecretCreateDone(s, p) ==
  /\ s \in Sweeps
  /\ InvAt(s, p, "secret")
  /\ InvStep(s, p, spawnAfterSecret(sweeps[s].types[p]))

SecretStored(s, p) ==
  /\ s \in Sweeps
  /\ InvAt(s, p, "secret")
  /\ sweeps[s].types[p].secrets[sweeps[s].types[p].cur].st = "pending"
  /\ InvStep(s, p, secretStored(sweeps[s].types[p]))

SecretCreateFail(s, p) ==
  /\ s \in Sweeps
  /\ InvAt(s, p, "secret")
  /\ sweeps[s].types[p].secrets[sweeps[s].types[p].cur].st = "pending"
  /\ InvStep(s, p, spawnSecretFailed(sweeps[s].types[p]))

RequestDone(s, p) ==
  /\ s \in Sweeps
  /\ InvAt(s, p, "request")
  /\ InvStep(s, p, requestResolved(sweeps[s].types[p]))

RequestFail(s, p) ==
  /\ s \in Sweeps
  /\ InvAt(s, p, "request")
  /\ InvStep(s, p, requestRejected(sweeps[s].types[p]))

PaceElapsed(s, p) ==
  /\ s \in Sweeps
  /\ InvAt(s, p, "pace")
  /\ InvStep(s, p, paceElapsed(sweeps[s].types[p]))

KillDone(s, p) ==
  /\ s \in Sweeps
  /\ InvAt(s, p, "kill")
  /\ InvStep(s, p, [sweeps[s].types[p] EXCEPT !.pc = "done"])

KillFail(s, p) ==
  /\ s \in Sweeps
  /\ InvAt(s, p, "kill")
  /\ InvStep(s, p, [sweeps[s].types[p] EXCEPT !.pc = "failed"])

\* ---- specifications ----

Init ==
  /\ keepRunning = FALSE
  /\ stats = [runs |-> 0, consecFail |-> 0]
  /\ watchDog = [running |-> FALSE, handlers |-> 0, expired |-> FALSE]
  /\ exitTimers = 0
  /\ exited = FALSE
  /\ once \in BOOLEAN
  /\ loops = <<>>
  /\ sweeps = <<>>

\* the steps of the sweeps up to the fan-out
FetchNext(poolSets) ==
  \/ \E s \in Sweeps : \E ws \in poolSets : FetchDone(s, ws)
  \/ \E s \in Sweeps : FetchFail(s)
  \/ \E s \in Sweeps : MaintDone(s)
  \/ \E s \in Sweeps : MaintFail(s)

\* the steps of the provisionType calls
PoolNext(deltas) ==
  \/ \E s \in Sweeps : \E p \in Pool : \E c \in deltas : PendingTasksDone(s, p, c)
  \/ \E s \in Sweeps : \E p \in Pool : PendingTasksFail(s, p)
  \/ \E s \in Sweeps : \E p \in Pool : SecretCreateDone(s, p)
  \/ \E s \in Sweeps : \E p \in Pool : SecretCreateFail(s, p)
  \/ \E s \in Sweeps : \E p \in Pool : RequestDone(s, p)
  \/ \E s \in Sweeps : \E p \in Pool : RequestFail(s, p)
  \/ \E s \in Sweeps : \E p \in Pool : PaceElapsed(s, p)
  \/ \E s \in Sweeps : \E p \in Pool : KillDone(s, p)
  \/ \E s \in Sweeps : \E p \in Pool : KillFail(s, p)

\* any run() and stop() calls; every sweep loads one pool
Next ==
  \/ run(MaxRuns, MaxSweeps)
  \/ stop
  \/ \E l \in Loops : SweepSettled(l)
  \/ \E l \in Loops : DelayElapsed(l, MaxSweeps)
  \/ watchDogExpired
  \/ processExit
  \/ FetchNext({{1}})
  \/ PoolNext(SmallDeltas)

Spec == Init /\ [][Next]_vars

\* as Spec, with run() called only on a provisioner that is stopped (never
\* started, or stop() was called last)
NextRestart ==
  \/ ~keepRunning /\ run(MaxRuns, MaxSweeps)
  \/ stop
  \/ \E l \in Loops : SweepSettled(l)
  \/ \E l \in Loops : DelayElapsed(l, MaxSweeps)
  \/ watchDogExpired
  \/ processExit
  \/ FetchNext({{1}})
  \/ PoolNext(SmallDeltas)

SpecRestart == Init /\ [][NextRestart]_vars

\* one run() call in run-once mode: one sweep over all the pools
InitOnce == Init /\ once = TRUE

NextPool ==
  \/ run(1, 1)
  \/ \E l \in Loops : SweepSettled(l)
  \/ \E l \in Loops : DelayElapsed(l, 1)
  \/ FetchNext({Pool})
  \/ PoolNext(Deltas)

SpecPool == InitOnce /\ [][NextPool]_vars

\* one run() call and no stop(): the successive sweeps of one control loop
NextSweeps ==
  \/ run(1, SeqSweeps)
  \/ \E l \in Loops : SweepSettled(l)
  \/ \E l \in Loops : DelayElapsed(l, SeqSweeps)
  \/ FetchNext({Pool})
  \/ PoolNext(Deltas)

SpecSweeps == Init /\ [][NextSweeps]_vars

\* the control loop alone: no worker type is configured, a sweep fails in
\* its fetches or in its maintenance
NextLoop ==
  \/ run(LoopRuns, LoopSweeps)
  \/ stop
  \/ \E l \in Loops : SweepSettled(l)
  \/ \E l \in Loops : DelayElapsed(l, LoopSweeps)
  \/ watchDogExpired
  \/ processExit
  \/ FetchNext({{}})

SpecLoop == Init /\ [][NextLoop]_vars

\* one sweep over the pools with the createKeyPair calls settling
NextKeys ==
  \/ run(1, 1)
  \/ \E l \in Loops : SweepSettled(l)
  \/ \E l \in Loops : DelayElapsed(l, 1)
  \/ FetchNext({Pool})
  \/ PoolNext(Deltas)
  \/ \E s \in Sweeps : \E p \in Pool : KeyPairDone(s, p)
  \/ \E s \in Sweeps : \E p \in Pool : KeyPairFail(s, p)

SpecKeys == InitOnce /\ [][NextKeys]_vars

\* as Spec, with the write of a secret and its response as two steps
NextStore ==
  \/ run(MaxRuns, MaxSweeps)
  \/ stop
  \/ \E l \in Loops : SweepSettled(l)
  \/ \E l \in Loops : DelayElapsed(l, MaxSweeps)
  \/ watchDogExpired
  \/ processExit
  \/ FetchNext({{1}})
  \/ PoolNext(SmallDeltas)
  \/ \E s \in Sweeps : \E p \in Pool : SecretStored(s, p)

SpecStore == Init /\ [][NextStore]_vars

\* the control loop on its own, every sweep without worker types
NextHang ==
  \/ run(HangRuns, HangSweeps)
  \/ stop
  \/ \E l \in Loops : SweepSettled(l)
  \/ \E l \in Loops : DelayElapsed(l, HangSweeps)
  \/ watchDogExpired
  \/ processExit
  \/ FetchNext({{}})

\* the timers of the watchdog and of exitTimer fire once they are set; a
\* call to a collaborator may never settle, and the watchdog is the only
\* clock: a loop that is not stopped is in the end overtaken by its expiry
SpecHang ==
  /\ Init /\ [][NextHang]_vars
  /\ WF_vars(watchDogExpired)
  /\ WF_vars(processExit)

\* the event loop runs the continuation of a settled await and fires the
\* timer of the delay and of exitTimer; the watchdog's window may never pass
SpecLive ==
  /\ Init /\ [][NextHang]_vars
  /\ WF_vars(\E l \in Loops : SweepSettled(l))
  /\ WF_vars(\E l \in Loops : DelayElapsed(l, HangSweeps))
  /\ WF_vars(processExit)

\* as SpecLive, and every call to a collaborator settles
SpecSettle == SpecLive /\ WF_vars(FetchNext({{}}))

\* the control loop up to the threshold of failures with no stop(); the
\* timer of exitTimer fires once it is set
NextFatal ==
  \/ run(LoopRuns, LoopSweeps)
  \/ \E l \in Loops : SweepSettled(l)
  \/ \E l \in Loops : DelayElapsed(l, LoopSweeps)
  \/ watchDogExpired
  \/ processExit
  \/ FetchNext({{}})

SpecFatal == Init /\ [][NextFatal]_vars /\ WF_vars(processExit)

\* ---- properties ----

\* every provisionType call there is, of any sweep
Calls == {c \in Sweeps \X Pool : c[2] \in Started(c[1])}
Call(c) == sweeps[c[1]].types[c[2]]
Ended(inv) == inv.pc \in {"done", "failed"}
InFlight(log) == {j \in 1..Len(log) : log[j].st = "pending"}

\* C1: in every spawn, requestSpotInstance is invoked for a bid only after
\* the Secret.create of that bid has resolved; when Secret.create rejects,
\* requestSpotInstance is not invoked for the bid and the spawn chain (and so
\* provisionType) has rejected.
C1_SecretBeforeRequest ==
  \A c \in Calls :
    LET inv == Call(c) IN
      /\ \A i \in 1..Len(inv.requests) :
           \E j \in 1..Len(inv.secrets) :
             /\ inv.secrets[j].bid = inv.requests[i].bid
             /\ inv.secrets[j].st = "ok"
      /\ \A j \in 1..Len(inv.secrets) :
           inv.secrets[j].st = "failed" =>
             /\ inv.pc = "failed"
             /\ \A i \in 1..Len(inv.requests) :
                  inv.requests[i].bid # inv.secrets[j].bid

\* a request has been submitted in one pool after its secret was stored, and
\* in another pool a Secret.create has failed
C1_Witness ==
  \E c, d \in Calls :
    /\ Len(Call(c).requests) >= 1
    /\ Call(d).pc = "failed"
    /\ Len(Call(d).secrets) >= 1
    /\ Call(d).secrets[Len(Call(d).secrets)].st = "failed"

\* C3 as stated: a provisionType call with delta d > 0 that has ended has
\* made d spawn attempts, whatever their outcome.
C3_AttemptsEqualDelta ==
  \A c \in Calls :
    (Ended(Call(c)) /\ Call(c).change > 0) =>
      Len(Call(c).secrets) = Call(c).change

\* C3 amended: a provisionType call with delta d > 0 makes spawn attempts
\* 1, 2, ... in order and never more than d; it resolves only after d
\* attempts that all succeeded; it rejects at the first attempt that fails,
\* and no later bid is attempted.
C3_AttemptsUpToFirstFailure ==
  \A c \in Calls :
    LET inv == Call(c)
        n == Len(inv.secrets)
        ok(j) == /\ inv.secrets[j].st = "ok"
                 /\ j <= Len(inv.requests)
                 /\ inv.requests[j].st = "ok"
    IN  inv.change > 0 =>
          /\ n >= 1 /\ n <= inv.change
          /\ \A j \in 1..n : inv.secrets[j].bid = j
          /\ \A j \in 1..(n - 1) : ok(j)
          /\ inv.pc = "done" => (n = inv.change /\ ok(n))
          /\ inv.pc = "failed" => ~ok(n)

\* a call with delta 2 has resolved after two attempts, and a call with
\* delta 2 has rejected after one
C3_Witness ==
  \E c, d \in Calls :
    /\ Call(c).change = 2 /\ Call(c).pc = "done" /\ Len(Call(c).secrets) = 2
    /\ Call(d).change = 2 /\ Call(d).pc = "failed" /\ Len(Call(d).secrets) = 1

\* C4: within one provisionType call the spawns are strictly sequential:
\* the spawn of bid i+1 has started only if the request of bid i has
\* resolved and the delay that follows it has elapsed, and at most one
\* Secret.create or requestSpotInstance of the call is in flight.
C4_SequentialSpawns ==
  \A c \in Calls :
    LET inv == Call(c) IN
      /\ \A j \in 2..Len(inv.secrets) :
           /\ inv.requests[j - 1].st = "ok"
           /\ j - 1 <= Len(inv.paces)
           /\ inv.paces[j - 1].bid = inv.secrets[j].bid - 1
           /\ inv.paces[j - 1].st = "elapsed"
      /\ Cardinality(InFlight(inv.secrets)) + Cardinality(InFlight(inv.requests)) <= 1

\* the second spawn of a call is in flight
C4_Witness ==
  \E c \in Calls :
    /\ Len(Call(c).secrets) = 2
    /\ Call(c).secrets[2].st = "pending"

\* C5: a provisionType call with delta d < 0 issues exactly one termination
\* request, for at most -d units (it asks for -d) in the states pending and
\* spotReq only, and no spawn; no termination request ever names the running
\* state.
C5_ScaleDown ==
  \A c \in Calls :
    LET inv == Call(c) IN
      /\ inv.change < 0 =>
           /\ inv.kills = <<[count |-> 0 - inv.change,
                             states |-> {"pending", "spotReq"}]>>
           /\ inv.secrets = <<>>
           /\ inv.requests = <<>>
      /\ \A k \in 1..Len(inv.kills) :
           /\ "running" \notin inv.kills[k].states
           /\ inv.change < 0
           /\ inv.kills[k].count <= 0 - inv.change

\* a call with delta -2 has resolved
C5_Witness ==
  \E c \in Calls :
    /\ Call(c).change = 0 - 2
    /\ Call(c).pc = "done"
    /\ Len(Call(c).kills) = 1

\* C6: a provisionType call whose delta is 0 issues no Secret.create, no
\* requestSpotInstance and no termination request, and emits exactly one
\* iteration-metrics record, carrying delta 0.
C6_ZeroDelta ==
  \A c \in Calls :
    LET inv == Call(c) IN
      (inv.tasks = "ok" /\ inv.change = 0) =>
        /\ inv.secrets = <<>>
        /\ inv.requests = <<>>
        /\ inv.kills = <<>>
        /\ inv.metrics = <<[change |-> 0]>>
        /\ inv.pc = "done"

\* a zero-delta call stands beside a call that scales up
C6_Witness ==
  \E c, d \in Calls :
    /\ Call(c).tasks = "ok" /\ Call(c).change = 0
    /\ Call(d).change > 0 /\ Len(Call(d).requests) >= 1

\* C7 as stated: every provisionType call of a sweep that has ended, however
\* it ended, has emitted exactly one iteration-metrics record.
C7_OneRecordWhateverOutcome ==
  \A c \in Calls : Ended(Call(c)) => Len(Call(c).metrics) = 1

\* C7 amended: a provisionType call emits exactly one iteration-metrics
\* record, carrying its delta, once its pending-work query has resolved,
\* whatever the branch taken and the outcome of the branch's actions; it
\* emits none before, and none at all when the pending-work query fails.
C7_OneRecordOncePendingKnown ==
  \A c \in Calls :
    LET inv == Call(c) IN
      /\ inv.tasks = "ok" => inv.metrics = <<[change |-> inv.change]>>
      /\ inv.tasks # "ok" => inv.metrics = <<>>
      /\ inv.tasks = "failed" => inv.pc = "failed"

\* of two calls of a sweep, one has rejected in its bid chain after its
\* record, the other has rejected in the pending-work query
C7_Witness ==
  \E c, d \in Calls :
    /\ c[1] = d[1]
    /\ Call(c).pc = "failed" /\ Call(c).tasks = "ok" /\ Call(c).change > 0
    /\ Call(d).pc = "failed" /\ Call(d).tasks = "failed"

\* the next step of a provisionType call that awaits something can be taken
CallCanStep(s, p) ==
  ENABLED (\/ \E ch \in Deltas : PendingTasksDone(s, p, ch)
           \/ PendingTasksFail(s, p)
           \/ SecretCreateDone(s, p) \/ SecretCreateFail(s, p)
           \/ RequestDone(s, p) \/ RequestFail(s, p)
           \/ PaceElapsed(s, p)
           \/ KillDone(s, p) \/ KillFail(s, p))

\* C8: in a sweep that reaches the fan-out, provisionType is started for
\* every loaded pool; the rejection of one pool's call changes nothing in
\* the calls of the other pools, and a call that has not ended can always
\* take its next step, whatever has become of the other calls and of the
\* sweep.
C8_FanOutIsolation ==
  /\ [](\A s \in Sweeps :
          /\ (sweeps[s].phase # "reported" /\ Started(s) # {}) =>
               Started(s) = sweeps[s].workerTypes
          /\ \A p \in Started(s) :
               Running(sweeps[s].types[p]) => CallCanStep(s, p))
  /\ [][\A c, d \in Calls :
          (/\ c # d
           /\ Running(Call(c))
           /\ Running(Call(d))
           /\ sweeps'[d[1]].types[d[2]].pc = "failed") =>
            sweeps'[c[1]].types[c[2]] = Call(c)]_vars

\* the sweep has rejected with the call of one pool, and the call of another
\* pool is at the second spawn of its chain
C8_Witness ==
  \E c, d \in Calls :
    /\ c[1] = d[1]
    /\ sweeps[c[1]].phase = "rejected"
    /\ Call(d).pc = "failed"
    /\ Call(c).pc = "secret" /\ Call(c).cur = 2

\* the spawn chain of a provisionType call is in progress
Chaining(inv) == inv.pc \in {"secret", "request", "pace"}

\* C2: at no time are the spawn chains of two provisionType calls for the
\* same pool in progress.
C2_OneChainPerPool ==
  \A p \in Pool :
    Cardinality({s \in Sweeps : p \in Started(s) /\ Chaining(sweeps[s].types[p])}) <= 1

\* a step of run() starts an iteration of loop l
StartsIteration(l) ==
  \/ l \notin Loops /\ l \in 1..Len(loops')
  \/ /\ l \in Loops
     /\ loops[l].pc = "delay" /\ loops'[l].pc # "delay"
     /\ keepRunning /\ ~once

\* C9: the step of run() that follows a sweep sets the consecutive-failure
\* counter to 0 when the sweep resolved and adds exactly 1 to it when the
\* sweep rejected; an iteration that starts with the counter above
\* MAX_FAILURES sets the exit timer and throws without calling
\* runAllProvisionersOnce, and no sweep ever starts with the counter above
\* MAX_FAILURES.
C9_FailureCounter ==
  [][/\ \A l \in Loops :
          (loops[l].pc = "sweep" /\ loops'[l].pc = "delay") =>
            /\ sweeps[loops[l].sweep].phase = "resolved" =>
                 stats'.consecFail = 0
            /\ sweeps[loops[l].sweep].phase = "rejected" =>
                 stats'.consecFail = stats.consecFail + 1
            /\ sweeps[loops[l].sweep].phase \in {"resolved", "rejected"}
     /\ \A l \in 1..Len(loops') :
          (StartsIteration(l) /\ stats.consecFail > MAX_FAILURES) =>
            /\ loops'[l].pc = "threw"
            /\ exitTimers' > exitTimers
            /\ Len(sweeps') = Len(sweeps)
     /\ Len(sweeps') > Len(sweeps) => stats.consecFail <= MAX_FAILURES
    ]_vars

\* the loop has thrown with the counter at MAX_FAILURES + 1
C9_Witness ==
  \E l \in Loops :
    /\ loops[l].pc = "threw"
    /\ stats.consecFail = MAX_FAILURES + 1
    /\ exitTimers > 0

\* the runAllProvisionersOnce calls that have not settled
SweepsInFlight == {s \in Sweeps : sweeps[s].phase \in {"fetch", "maint", "fanout"}}

\* C10: after any run() and stop() calls, at most one sweep is in flight.
C10_OneSweepInFlight == Cardinality(SweepsInFlight) <= 1

\* the run() calls whose do loop has neither returned nor thrown
LiveLoops(lps) == {l \in 1..Len(lps) : lps[l].pc \in {"sweep", "delay"}}

\* C11: a run() that follows a stop() begins as on a fresh Provisioner: the
\* counters runs and consecFail are 0, the watchdog has one 'expired'
\* handler, and the loop of this run() is the only one iterating.
C11_RestartIsFresh ==
  [][(Len(loops) > 0 /\ Len(loops') > Len(loops)) =>
       /\ stats.runs = 0
       /\ stats.consecFail = 0
       /\ watchDog'.handlers = 1
       /\ Cardinality(LiveLoops(loops')) <= 1
    ]_vars


\* a run() whose loop waits for a sweep while nothing has stopped the loop
Hung(l) == l \in Loops /\ loops[l].pc = "sweep" /\ keepRunning

\* C12: while the loop runs, a sweep that does not come back is followed by
\* the watchdog's expiry, whatever the failure counter says, and the expiry
\* sets the timer of the hard termination; the wait ends otherwise only if
\* the sweep settles, stop() is called or the process has exited.
C12_HangDetected ==
  /\ \A l \in 1..HangRuns :
        Hung(l) ~> (~Hung(l) \/ watchDog.expired \/ exited)
  /\ [][(watchDog'.expired /\ ~watchDog.expired) =>
          exitTimers' = exitTimers + 1]_vars

C12_Witness ==
  /\ watchDog.expired
  /\ exitTimers > 0
  /\ stats.consecFail = 0
  /\ \E l \in Loops :
        /\ Hung(l)
        /\ sweeps[loops[l].sweep].phase = "fetch"

\* what ends the iterations of a run(): stop(), the run-once mode, the
\* counter above the threshold, the exit of the process; the last disjunct is
\* the bound of the specification
LoopMayEnd ==
  \/ ~keepRunning
  \/ once
  \/ tooManyFailures(stats)
  \/ exited
  \/ Len(sweeps) >= HangSweeps

\* C13: a rejected sweep is caught: the loop goes to its delay and sets no
\* exit timer, and it then starts its next sweep unless stop(), the run-once
\* mode, the threshold or the exit of the process ends the loop.
C13_ProgressAfterFailure ==
  /\ [][\A l \in Loops :
          (loops[l].pc = "sweep" /\ loops'[l].pc # "sweep") =>
             (loops'[l].pc = "delay" /\ exitTimers' = exitTimers)]_vars
  /\ \A l \in 1..HangRuns : \A k \in 1..HangSweeps :
        (/\ l \in Loops
         /\ loops[l].pc = "sweep"
         /\ loops[l].sweep = k
         /\ sweeps[k].phase = "rejected")
        ~> \/ l \in Loops /\ loops[l].pc = "sweep" /\ loops[l].sweep > k
           \/ LoopMayEnd

C13_Witness ==
  /\ Len(loops) = 1
  /\ stats.consecFail = 1
  /\ loops[1].pc = "sweep"
  /\ loops[1].sweep = 2
  /\ sweeps[2].phase = "fetch"

C15_RunOnce ==
  /\ [][(once /\ Len(sweeps') > Len(sweeps)) =>
          Len(loops') > Len(loops)]_vars
  /\ [][(Len(loops') > Len(loops) /\ ~tooManyFailures(stats)) =>
          Len(sweeps') = Len(sweeps) + 1]_vars
  /\ [][\A l \in Loops :
          (loops[l].pc = "delay" /\ loops'[l].pc # "delay") =>
             IF once \/ ~keepRunning
             THEN loops'[l].pc = "returned"
             ELSE \/ loops'[l].pc = "sweep" /\ Len(sweeps') = Len(sweeps) + 1
                  \/ loops'[l].pc = "threw" /\ tooManyFailures(stats)]_vars

C15_Witness ==
  /\ once
  /\ keepRunning
  /\ ~exited
  /\ Len(sweeps) = 1
  /\ \E l \in Loops : loops[l].pc = "returned"

\* the entries of a log of submissions that have failed
Failed(log) == {j \in 1..Len(log) : log[j].st = "failed"}

\* C16: when the Secret.create or the requestSpotInstance of a bid fails, the
\* provisionType call has rejected and so has its sweep, which the loop
\* counts as failed; the bids before the failing one stay submitted, and no
\* bid is submitted twice in the call.
C16_BidFailureSurfaces ==
  /\ [](\A c \in Calls :
         LET inv == Call(c) IN
           /\ (Failed(inv.secrets) # {} \/ Failed(inv.requests) # {}) =>
                /\ inv.pc = "failed"
                /\ sweeps[c[1]].phase \in {"rejected", "reported"}
                /\ \A j \in 1..(Len(inv.secrets) - 1) :
                     /\ inv.secrets[j].st = "ok"
                     /\ inv.requests[j].st = "ok"
           /\ \A i, j \in 1..Len(inv.requests) :
                inv.requests[i].bid = inv.requests[j].bid => i = j)
  /\ [][\A l \in Loops :
          (/\ loops[l].pc = "sweep"
           /\ loops'[l].pc = "delay"
           /\ sweeps[loops[l].sweep].phase = "rejected") =>
             stats'.consecFail = stats.consecFail + 1]_vars

\* the second bid of a call has failed at its request after the first bid
\* was submitted, and the sweep has rejected
C16_Witness ==
  \E c \in Calls :
    /\ Call(c).change = 2
    /\ Len(Call(c).requests) = 2
    /\ Call(c).requests[1].st = "ok"
    /\ Call(c).requests[2].st = "failed"
    /\ sweeps[c[1]].phase = "rejected"

\* a fatal error has been raised: by the check of the failure counter, or
\* by the handler of the watchdog's expiry
FatalRaised ==
  \/ \E l \in Loops : loops[l].pc = "threw"
  \/ watchDog.expired

\* C17: whenever a fatal error has been raised, by the threshold or by the
\* watchdog, an exit timer has been set, and the process then exits.
C17_FatalTerminates ==
  /\ [](FatalRaised => exitTimers > 0)
  /\ FatalRaised ~> exited

\* the process has exited after the threshold alone raised the fatal error
C17_Witness ==
  /\ exited
  /\ ~watchDog.expired
  /\ \E l \in Loops : loops[l].pc = "threw"

\* C18: a sweep has resolved only if the createKeyPair call of every worker
\* type has resolved (as the three other maintenance calls have), so that a
\* pending or a failed createKeyPair keeps the sweep from resolving.
C18_MaintenanceCompletes ==
  \A s \in Sweeps :
    sweeps[s].phase = "resolved" =>
      \A p \in DOMAIN sweeps[s].keyPairs : sweeps[s].keyPairs[p] = "ok"

\* the secrets of a call that exist in the table
Created(inv) ==
  {j \in 1..Len(inv.secrets) : inv.secrets[j].st \in {"stored", "ok"}}

\* C19: no created secret remains without its request: once the process has
\* exited, requestSpotInstance has been called for the bid of every secret
\* that was created.
C19_SecretNeverOrphaned ==
  exited =>
    \A c \in Calls : \A j \in Created(Call(c)) :
      \E i \in 1..Len(Call(c).requests) :
        Call(c).requests[i].bid = Call(c).secrets[j].bid

\* C20: the watchdog expires only while an iteration of a control loop is in
\* flight: never after stop(), and never once every run() has returned.
C20_NoFalseExpiry ==
  [][(watchDog'.expired /\ ~watchDog.expired) =>
       (watchDog.running /\ LiveLoops(loops) # {})]_vars

\* C21: once a fatal error has been raised, by the threshold or by the
\* watchdog, no control loop goes on to a new iteration that starts a sweep
\* (a sweep started by a new call of run() is not counted).
C21_NoSweepAfterFatal ==
  [][(FatalRaised /\ Len(loops') = Len(loops)) =>
       Len(sweeps') = Len(sweeps)]_vars
====
